---- MODULE Spec2Model ----
(***************************************************************************)
(* Model of main.py of F5-TTS-FastAPI: the text normaliser                 *)
(* (gen_text.lower() followed by traducir_numero_a_texto) and the          *)
(* /generate-audio/ request handler with its temporary files, its fixed    *)
(* output path and the asynchronous sending of its file responses.         *)
(*                                                                         *)
(* A text is a sequence of items.  An item is a record [ch, num]: a        *)
(* character has num = -1 and ch naming it; the words num2words(n,         *)
(* lang='es') returns are one item with ch = "palabras" and num = n (the   *)
(* spelling is a string of letters and spaces, never a digit).             *)
(* "n~" names the letter U+00F1, a letter of the Spanish alphabet that is  *)
(* a word character for \b and \w and is not in [A-Za-z].                  *)
(***************************************************************************)
EXTENDS Integers, Sequences, FiniteSets, TLC

\* ------------------------------------------------------------- bounds
\* longest input text of the normaliser specification
MaxLen == 4
\* number of requests of the service specification
NumReqs == 2

\* ------------------------------------------------------------- characters
Chr(c) == [ch |-> c, num |-> -1]

\* the value num2words(n, lang='es') returns
Palabras(n) == [ch |-> "palabras", num |-> n]

IsChr(x) == x.num = -1
IsPalabras(x) == x.num >= 0

SP == Chr(" ")

\* \d of the regular expressions
IsDigit(x) == IsChr(x) /\ x.ch \in {"0", "1"}

\* [A-Za-z] of the regular expressions
IsAsciiLetter(x) == IsChr(x) /\ x.ch \in {"a", "b", "B"}

\* a letter of the Spanish alphabet: the ASCII letters and U+00F1
IsLetter(x) == IsAsciiLetter(x) \/ (IsChr(x) /\ x.ch = "n~")

\* \w of Python's str patterns: Unicode letters, digits and the underscore
IsWordChar(x) == IsLetter(x) \/ IsDigit(x) \/ (IsChr(x) /\ x.ch = "_")

\* the characters input texts are drawn from
Alphabet == {Chr("a"), Chr("B"), Chr("n~"), Chr("_"), Chr("0"), Chr("1"), SP, Chr(".")}

Texts(n) == UNION {[1..k -> Alphabet] : k \in 0..n}

\* ------------------------------------------------------------- str.lower
LowerChr(x) == IF IsChr(x) /\ x.ch = "B" THEN Chr("b") ELSE x

Lower(s) == [i \in 1..Len(s) |-> LowerChr(s[i])]

\* ------------------------------------------------------------- re.sub, lines 57-58
\* the pattern with \w in place of \d: a space after a letter before any word
\* character
RECURSIVE SepLetraPalabra(_)
SepLetraPalabra(s) ==
    IF Len(s) < 2 THEN s
    ELSE IF IsAsciiLetter(s[1]) /\ IsWordChar(s[2])
         THEN <<s[1], SP, s[2]>> \o SepLetraPalabra(SubSeq(s, 3, Len(s)))
         ELSE <<s[1]>> \o SepLetraPalabra(Tail(s))

\* re.sub(r'([A-Za-z])(\d)', r'\1 \2', s): leftmost non-overlapping matches,
\* the scan resuming after each match
RECURSIVE SepLetraDigito(_)
SepLetraDigito(s) ==
    IF Len(s) < 2 THEN s
    ELSE IF IsAsciiLetter(s[1]) /\ IsDigit(s[2])
         THEN <<s[1], SP, s[2]>> \o SepLetraDigito(SubSeq(s, 3, Len(s)))
         ELSE <<s[1]>> \o SepLetraDigito(Tail(s))

\* re.sub(r'(\d)([A-Za-z])', r'\1 \2', s)
RECURSIVE SepDigitoLetra(_)
SepDigitoLetra(s) ==
    IF Len(s) < 2 THEN s
    ELSE IF IsDigit(s[1]) /\ IsAsciiLetter(s[2])
         THEN <<s[1], SP, s[2]>> \o SepDigitoLetra(SubSeq(s, 3, Len(s)))
         ELSE <<s[1]>> \o SepDigitoLetra(Tail(s))

\* ------------------------------------------------------------- int and num2words, line 62
DigitVal(x) == IF x.ch = "1" THEN 1 ELSE 0

\* int(numero): the base-10 value of a run of digits
RECURSIVE IntOf(_)
IntOf(run) ==
    IF run = <<>> THEN 0
    ELSE 10 * IntOf(SubSeq(run, 1, Len(run) - 1)) + DigitVal(run[Len(run)])

\* num2words raises OverflowError from its MAXVAL on (about 10^600 in the
\* library); the model scales the limit down to four digits
Num2WordsMaxVal == 1000

Num2WordsRaises(n) == n >= Num2WordsMaxVal

\* ------------------------------------------------------------- re.sub, line 64
\* \b at the position before s[i] (i in 1..Len(s)+1)
WordBoundary(s, i) ==
    LET before == i > 1 /\ IsWordChar(s[i - 1])
        after == i <= Len(s) /\ IsWordChar(s[i])
    IN before # after

\* the last index of the greedy \d+ starting at i
RECURSIVE RunEnd(_, _)
RunEnd(s, i) == IF i < Len(s) /\ IsDigit(s[i + 1]) THEN RunEnd(s, i + 1) ELSE i

\* \b\d+\b matches at i: a shorter \d+ never ends at a \b, so only the
\* greedy run can match
MatchAt(s, i) ==
    /\ IsDigit(s[i])
    /\ WordBoundary(s, i)
    /\ WordBoundary(s, RunEnd(s, i) + 1)

reemplazar_numero(numero) == Palabras(IntOf(numero))

\* re.sub(r'\b\d+\b', reemplazar_numero, s), scanning from index i
RECURSIVE ReemplazarDesde(_, _)
ReemplazarDesde(s, i) ==
    IF i > Len(s) THEN <<>>
    ELSE IF MatchAt(s, i)
         THEN <<reemplazar_numero(SubSeq(s, i, RunEnd(s, i)))>>
                  \o ReemplazarDesde(s, RunEnd(s, i) + 1)
         ELSE <<s[i]>> \o ReemplazarDesde(s, i + 1)

ReemplazarNumeros(s) == ReemplazarDesde(s, 1)

\* reemplazar_numero raises for some match of the scan
ReemplazoRaises(s) ==
    \E i \in 1..Len(s) :
        /\ MatchAt(s, i)
        /\ Num2WordsRaises(IntOf(SubSeq(s, i, RunEnd(s, i))))

\* traducir_numero_a_texto, lines 56-64
Separado(texto) == SepDigitoLetra(SepLetraDigito(texto))
TraducirRaises(texto) == ReemplazoRaises(Separado(texto))
traducir_numero_a_texto(texto) == ReemplazarNumeros(Separado(texto))


\* ------------------------------------------------------------- state
VARIABLES
    npc,        \* normaliser: position in lines 72-73 and 57-64
    gen_text,   \* normaliser: the gen_text infer was called with
    texto,      \* normaliser: the text as rewritten so far
    pc,         \* request -> position of its handler
    req,        \* request -> its parameters
    exc,        \* request -> the exception raised inside its try block
    resp,       \* request -> the response the handler ended with
    final_wave, \* request -> the audio infer returned (0: none; r: r's audio)
    tmpFiles,   \* the NamedTemporaryFile(delete=False) files on disk
    outFile,    \* content of /app/generated_audio_files/generated_audio.wav
    delivered,  \* request -> the audio bytes sent in its file response
    running,    \* the request whose handler holds the event loop (0: none)
    hist        \* request -> the handler steps it has completed, in order

nvars == <<npc, gen_text, texto>>
svars == <<pc, req, exc, resp, final_wave, tmpFiles, outFile, delivered, running, hist>>
vars == <<npc, gen_text, texto, pc, req, exc, resp, final_wave, tmpFiles, outFile,
          delivered, running, hist>>

Reqs == 1..NumReqs

\* ------------------------------------------------------------- request parameters
\* gen_text values of the requests: empty, "a1" and "1000"
GenTexts == {<<>>, <<Chr("a"), Chr("1")>>, <<Chr("1"), Chr("0"), Chr("0"), Chr("0")>>}

Requests ==
    [filename : {"ref.wav", "ref.mp3"},
     ref_text : {"", "hola"},
     gen_text : GenTexts,
     remove_silence : BOOLEAN]

NoRequest == [filename |-> "", ref_text |-> "", gen_text |-> <<>>, remove_silence |-> FALSE]

NoResponse == [kind |-> "none", status |-> 0]

\* ref_audio.filename.endswith(".wav"), line 113
EndsWithWav(q) == q.filename = "ref.wav"

\* the test with "and" in place of "or"
BothTextsMissing(q) == q.ref_text = "" /\ q.gen_text = <<>>

\* not ref_text or not gen_text, line 122
TextsMissing(q) == q.ref_text = "" \/ q.gen_text = <<>>

\* the spectrogram file opened without delete=False
InferTmpFilesDeleted(r, q) == IF q.remove_silence THEN {<<r, "wave">>} ELSE {}

\* the temporary files infer creates, lines 82-92
InferTmpFiles(r, q) ==
    {<<r, "spectrogram">>} \cup (IF q.remove_silence THEN {<<r, "wave">>} ELSE {})

ServiceInit ==
    /\ pc = [r \in Reqs |-> "idle"]
    /\ req = [r \in Reqs |-> NoRequest]
    /\ exc = [r \in Reqs |-> "none"]
    /\ resp = [r \in Reqs |-> NoResponse]
    /\ final_wave = [r \in Reqs |-> 0]
    /\ tmpFiles = {}
    /\ outFile = 0
    /\ delivered = [r \in Reqs |-> 0]
    /\ running = 0
    /\ hist = [r \in Reqs |-> <<>>]

NormInit ==
    /\ npc = "off"
    /\ gen_text = <<>>
    /\ texto = <<>>

\* ------------------------------------------------------------- normaliser steps
\* gen_text = gen_text.lower(), line 72
NLower ==
    /\ npc = "infer"
    /\ texto' = Lower(texto)
    /\ npc' = "lowered"
    /\ UNCHANGED <<gen_text, svars>>

\* line 57
NSepLetraDigito ==
    /\ npc = "lowered"
    /\ texto' = SepLetraDigito(texto)
    /\ npc' = "sep1"
    /\ UNCHANGED <<gen_text, svars>>

\* line 58
NSepDigitoLetra ==
    /\ npc = "sep1"
    /\ texto' = SepDigitoLetra(texto)
    /\ npc' = "sep2"
    /\ UNCHANGED <<gen_text, svars>>

\* line 64, every replacement succeeding
NReemplazar ==
    /\ npc = "sep2"
    /\ ~ReemplazoRaises(texto)
    /\ texto' = ReemplazarNumeros(texto)
    /\ npc' = "done"
    /\ UNCHANGED <<gen_text, svars>>

\* line 64, num2words raising at line 62: the exception leaves the function
NReemplazarRaises ==
    /\ npc = "sep2"
    /\ ReemplazoRaises(texto)
    /\ npc' = "raised"
    /\ UNCHANGED <<gen_text, texto, svars>>

NormNext == NLower \/ NSepLetraDigito \/ NSepDigitoLetra \/ NReemplazar \/ NReemplazarRaises

\* infer is called with any gen_text, lines 68-71
InferInit ==
    /\ gen_text \in Texts(MaxLen)
    /\ texto = gen_text
    /\ npc = "infer"
    /\ ServiceInit

SpecNorm == InferInit /\ [][NormNext]_vars

\* ------------------------------------------------------------- handler steps
Step(r, name) == hist' = [hist EXCEPT ![r] = Append(@, name)]

\* raise inside the try block: control passes to the except clause, line 146
Raise(r, e) ==
    /\ exc' = [exc EXCEPT ![r] = e]
    /\ pc' = [pc EXCEPT ![r] = "except"]
    /\ Step(r, "raise")

\* the request arrives and its handler starts; the handler has no await, so it
\* holds the event loop until it returns or raises, lines 99-111
Receive(r) ==
    /\ pc[r] = "idle"
    /\ running = 0
    /\ \E q \in Requests : req' = [req EXCEPT ![r] = q]
    /\ running' = r
    /\ pc' = [pc EXCEPT ![r] = "check_wav"]
    /\ UNCHANGED <<exc, resp, final_wave, tmpFiles, outFile, delivered, hist, nvars>>

\* lines 113-114
CheckFilename(r) ==
    /\ pc[r] = "check_wav"
    /\ IF EndsWithWav(req[r])
       THEN /\ pc' = [pc EXCEPT ![r] = "stage"]
            /\ Step(r, "check_wav")
            /\ UNCHANGED exc
       ELSE Raise(r, "HTTP400_wav")
    /\ UNCHANGED <<req, resp, final_wave, tmpFiles, outFile, delivered, running, nvars>>

\* lines 117-119
StageRefAudio(r) ==
    /\ pc[r] = "stage"
    /\ tmpFiles' = tmpFiles \cup {<<r, "ref_audio">>}
    /\ pc' = [pc EXCEPT ![r] = "check_text"]
    /\ Step(r, "stage")
    /\ UNCHANGED <<req, exc, resp, final_wave, outFile, delivered, running, nvars>>

\* lines 122-123
CheckTexts(r) ==
    /\ pc[r] = "check_text"
    /\ IF TextsMissing(req[r])
       THEN Raise(r, "HTTP400_text")
       ELSE /\ pc' = [pc EXCEPT ![r] = "infer"]
            /\ Step(r, "check_text")
            /\ UNCHANGED exc
    /\ UNCHANGED <<req, resp, final_wave, tmpFiles, outFile, delivered, running, nvars>>

\* infer, lines 127-129 and 71-95, returning the audio made from r's inputs
InferReturns(r) ==
    /\ pc[r] = "infer"
    /\ ~TraducirRaises(Lower(req[r].gen_text))
    /\ final_wave' = [final_wave EXCEPT ![r] = r]
    /\ tmpFiles' = tmpFiles \cup InferTmpFiles(r, req[r])
    /\ pc' = [pc EXCEPT ![r] = "write"]
    /\ Step(r, "infer")
    /\ UNCHANGED <<req, exc, resp, outFile, delivered, running, nvars>>

\* infer, lines 72-73: num2words raises and nothing catches it before line 146
InferNormalizerRaises(r) ==
    /\ pc[r] = "infer"
    /\ TraducirRaises(Lower(req[r].gen_text))
    /\ Raise(r, "num2words")
    /\ UNCHANGED <<req, resp, final_wave, tmpFiles, outFile, delivered, running, nvars>>

\* infer, line 76: the model call raises
InferProcessRaises(r) ==
    /\ pc[r] = "infer"
    /\ ~TraducirRaises(Lower(req[r].gen_text))
    /\ Raise(r, "infer_process")
    /\ UNCHANGED <<req, resp, final_wave, tmpFiles, outFile, delivered, running, nvars>>

\* lines 132-135: every request writes the same path
WriteOutput(r) ==
    /\ pc[r] = "write"
    /\ outFile' = final_wave[r]
    /\ pc' = [pc EXCEPT ![r] = "return"]
    /\ Step(r, "write")
    /\ UNCHANGED <<req, exc, resp, final_wave, tmpFiles, delivered, running, nvars>>

\* lines 133-135: makedirs or sf.write raises
WriteOutputRaises(r) ==
    /\ pc[r] = "write"
    /\ Raise(r, "sf.write")
    /\ UNCHANGED <<req, resp, final_wave, tmpFiles, outFile, delivered, running, nvars>>

\* lines 140-144: the handler returns; the file is read when the response is sent
ReturnFileResponse(r) ==
    /\ pc[r] = "return"
    /\ resp' = [resp EXCEPT ![r] = [kind |-> "file", status |-> 200]]
    /\ pc' = [pc EXCEPT ![r] = "sending"]
    /\ running' = 0
    /\ Step(r, "file_response")
    /\ UNCHANGED <<req, exc, final_wave, tmpFiles, outFile, delivered, nvars>>

\* lines 146-148: except Exception catches every exception of the try block,
\* HTTPException included, and raises HTTPException(status_code=500)
ExceptHandler(r) ==
    /\ pc[r] = "except"
    /\ resp' = [resp EXCEPT ![r] = [kind |-> "error", status |-> 500]]
    /\ pc' = [pc EXCEPT ![r] = "done"]
    /\ running' = 0
    /\ Step(r, "error_response")
    /\ UNCHANGED <<req, exc, final_wave, tmpFiles, outFile, delivered, nvars>>

\* the server sends the FileResponse of lines 140-144 after the handler has
\* returned, on the event loop the handlers run on: the bytes are those at the
\* path at that time
SendFile(r) ==
    /\ pc[r] = "sending"
    /\ running = 0
    /\ delivered' = [delivered EXCEPT ![r] = outFile]
    /\ pc' = [pc EXCEPT ![r] = "done"]
    /\ UNCHANGED <<req, exc, resp, final_wave, tmpFiles, outFile, running, hist, nvars>>

Next ==
    \E r \in Reqs :
        \/ Receive(r)
        \/ CheckFilename(r)
        \/ StageRefAudio(r)
        \/ CheckTexts(r)
        \/ InferReturns(r)
        \/ InferNormalizerRaises(r)
        \/ InferProcessRaises(r)
        \/ WriteOutput(r)
        \/ WriteOutputRaises(r)
        \/ ReturnFileResponse(r)
        \/ ExceptHandler(r)
        \/ SendFile(r)

Init == NormInit /\ ServiceInit

Spec == Init /\ [][Next]_vars

\* ============================================================= claims
\* ------------------------------------------------------------- helpers of the claims
HasDigit(s) == \E i \in 1..Len(s) : IsDigit(s[i])

\* the lower-cased text, character by character
Lowered(s) == [i \in 1..Len(s) |-> IF s[i] = Chr("B") THEN Chr("b") ELSE s[i]]

\* the values of the maximal digit runs of s, in order
RECURSIVE RunValues(_, _)
RunValues(s, i) ==
    IF i > Len(s) THEN <<>>
    ELSE IF IsDigit(s[i])
         THEN <<IntOf(SubSeq(s, i, RunEnd(s, i)))>> \o RunValues(s, RunEnd(s, i) + 1)
         ELSE RunValues(s, i + 1)

\* the numbers spelled in s, in order
RECURSIVE SpelledValues(_)
SpelledValues(s) ==
    IF s = <<>> THEN <<>>
    ELSE IF IsPalabras(s[1]) THEN <<s[1].num>> \o SpelledValues(Tail(s))
         ELSE SpelledValues(Tail(s))

\* s without its digits and spelled numbers
RECURSIVE NonNumeric(_)
NonNumeric(s) ==
    IF s = <<>> THEN <<>>
    ELSE IF IsDigit(s[1]) \/ IsPalabras(s[1]) THEN NonNumeric(Tail(s))
         ELSE <<s[1]>> \o NonNumeric(Tail(s))

\* a letter next to a digit, in either order
LetterDigit(x, y) == (IsLetter(x) /\ IsDigit(y)) \/ (IsDigit(x) /\ IsLetter(y))

\* s with one space inserted at every letter/digit position
RECURSIVE WithBoundarySpaces(_)
WithBoundarySpaces(s) ==
    IF Len(s) < 2 THEN s
    ELSE IF LetterDigit(s[1], s[2])
         THEN <<s[1], SP>> \o WithBoundarySpaces(Tail(s))
         ELSE <<s[1]>> \o WithBoundarySpaces(Tail(s))

\* s with each maximal digit run replaced in place by its spelling
RECURSIVE AllRunsSpelled(_, _)
AllRunsSpelled(s, i) ==
    IF i > Len(s) THEN <<>>
    ELSE IF IsDigit(s[i])
         THEN <<Palabras(IntOf(SubSeq(s, i, RunEnd(s, i))))>>
                  \o AllRunsSpelled(s, RunEnd(s, i) + 1)
         ELSE <<s[i]>> \o AllRunsSpelled(s, i + 1)

Finished(r) == pc[r] = "done"

ValidRequest(q) == q.filename = "ref.wav" /\ q.ref_text # "" /\ q.gen_text # <<>>

TmpOf(r) == {f \in tmpFiles : f[1] = r}

Index(h, name) == IF \E i \in 1..Len(h) : h[i] = name
                  THEN CHOOSE i \in 1..Len(h) : h[i] = name
                  ELSE 0

\* ------------------------------------------------------------- normaliser claims
\* C1: for every input text the normalised text holds no digit character.
C1_NoDigitInOutput == npc = "done" => ~HasDigit(texto)

\* C2: a text without digits is returned exactly lower-cased, nothing inserted,
\* removed or reordered, and the empty text gives the empty text.
C2_NoDigitsGivesLower ==
    ~HasDigit(gen_text) =>
        /\ npc # "raised"
        /\ npc = "done" => texto = Lowered(gen_text)

C2_Witness ==
    /\ npc = "done"
    /\ ~HasDigit(gen_text)
    /\ Len(gen_text) >= 3
    /\ \E i \in 1..Len(gen_text) : gen_text[i] = Chr("B")
    /\ \E i \in 1..Len(gen_text) : IsAsciiLetter(gen_text[i]) /\ i < Len(gen_text)
                                     /\ gen_text[i + 1] = Chr("_")

\* C3: every maximal digit run of the input is replaced by the spelling of the
\* integer it denotes, leading zeros ignored, runs apart being spelled apart.
C3_EveryRunSpelled ==
    npc = "done" => SpelledValues(texto) = RunValues(gen_text, 1)

\* C4: after the separation step exactly one space stands at every position
\* where a letter of the alphabet met a digit, and nowhere else, so no letter
\* is next to a digit.
C4_LettersAndDigitsSeparated ==
    npc = "sep2" =>
        /\ texto = WithBoundarySpaces(Lowered(gen_text))
        /\ \A i \in 1..(Len(texto) - 1) : ~LetterDigit(texto[i], texto[i + 1])

\* C5: the non-digit characters of the lower-cased input appear in the output
\* unchanged and in order, each digit run replaced in place by its spelling.
C5_OnlyCaseSpacesAndRunsChange ==
    npc = "done" =>
        /\ NonNumeric(texto) = NonNumeric(WithBoundarySpaces(Lowered(gen_text)))
        /\ texto = AllRunsSpelled(WithBoundarySpaces(Lowered(gen_text)), 1)

\* ------------------------------------------------------------- service claims
\* C6: a failing number conversion never leaves the normaliser and never turns
\* a valid request into an error response.
C6_ConversionFailureIsAbsorbed ==
    \A r \in Reqs :
        /\ exc[r] # "num2words"
        /\ (Finished(r) /\ ValidRequest(req[r])
              /\ exc[r] \notin {"infer_process", "sf.write"}) => resp[r].kind = "file"

\* C7: a request failing validation is answered with status 400, and status
\* 500 is kept for the failures that are not validation failures.
C7_ValidationAnswered400 ==
    \A r \in Reqs :
        Finished(r) =>
            /\ ~ValidRequest(req[r]) => resp[r].status = 400
            /\ resp[r].status = 500 => ValidRequest(req[r])

\* C8: the audio bytes delivered in a request's response are the ones generated
\* from that request's inputs, whatever the other requests do.
C8_OwnAudioDelivered ==
    \A r \in Reqs :
        (Finished(r) /\ resp[r].kind = "file") => delivered[r] = r

\* C9: infer runs only after both checks have passed, the output file is
\* written only after infer has returned, a file response is returned only
\* when every step completed without an exception, a raise ends in an error
\* response, and a request ends with exactly one of the two.
C9_StepsInOrder ==
    \A r \in Reqs :
        LET h == hist[r]
            at(name) == Index(h, name)
            ended == pc[r] \in {"sending", "done"}
        IN /\ (pc[r] = "infer" \/ at("infer") > 0) =>
                  /\ 0 < at("check_wav") /\ at("check_wav") < at("check_text")
                  /\ req[r].filename = "ref.wav"
                  /\ req[r].ref_text # "" /\ req[r].gen_text # <<>>
           /\ at("infer") > 0 => at("check_text") < at("infer")
           /\ at("write") > 0 =>
                  /\ 0 < at("infer") /\ at("infer") < at("write")
                  /\ final_wave[r] = r
           /\ outFile = r => at("write") > 0
           /\ at("file_response") > 0 =>
                  /\ h = <<"check_wav", "stage", "check_text", "infer", "write",
                           "file_response">>
                  /\ exc[r] = "none"
           /\ at("raise") > 0 =>
                  /\ at("file_response") = 0
                  /\ resp[r].kind # "file"
                  /\ ended => h[Len(h)] = "error_response"
           /\ ended <=> resp[r].kind \in {"file", "error"}
           /\ ended => (resp[r].kind = "file" <=> at("file_response") > 0)
           /\ ended => (resp[r].kind = "error" <=> at("raise") > 0)
           /\ ended => (resp[r].kind = "file" <=> exc[r] = "none")

C9_Witness ==
    \E r, t \in Reqs :
        /\ Finished(r) /\ resp[r].kind = "file"
        /\ Finished(t) /\ resp[t].kind = "error" /\ exc[t] = "sf.write"

\* C10: no temporary file is ever removed, and a finished request has left
\* none when the filename was rejected, one when a text was missing, and two,
\* or three with remove_silence, when its inference completed.
C10_FilesLeft ==
    \A r \in Reqs :
        (pc[r] \in {"sending", "done"}) =>
            /\ exc[r] = "HTTP400_wav" => Cardinality(TmpOf(r)) = 0
            /\ exc[r] = "HTTP400_text" => Cardinality(TmpOf(r)) = 1
            /\ final_wave[r] # 0 =>
                   Cardinality(TmpOf(r)) = IF req[r].remove_silence THEN 3 ELSE 2

C10_TemporaryFiles == [](C10_FilesLeft) /\ [][tmpFiles \subseteq tmpFiles']_vars

C10_Witness ==
    \E r, t \in Reqs :
        /\ Finished(r) /\ final_wave[r] = r /\ req[r].remove_silence
        /\ Cardinality(TmpOf(r)) = 3
        /\ Finished(t) /\ exc[t] = "HTTP400_text" /\ Cardinality(TmpOf(t)) = 1

====
